---- MODULE Spec2Model ----
(***************************************************************************)
(* Model of backend/lambda/handlers/search_imslp.py: one invocation of     *)
(* the Lambda handler, from the event it receives to the response it       *)
(* returns.                                                                *)
(*                                                                         *)
(* Representation of Python values:                                        *)
(*  - a string the code inspects or builds character by character is a     *)
(*    sequence of one-character strings; a string the code only passes     *)
(*    along (composer, catalog url, opus, source label, exception text)    *)
(*    is a TLA+ string;                                                    *)
(*  - a value whose Python type depends on the input (the event, its      *)
(*    body, the value parsed from it, the query, the response of the       *)
(*    search collaborator and its result entries, and what is copied from  *)
(*    them: title, pdf_url, description, image_url) carries its type:      *)
(*    Str(s), IntVal(n), Bool(b), Float(text), List(l), Dict(items), or    *)
(*    NoneVal for None;                                                    *)
(*  - a dict the code builds is a record whose DOMAIN is the dict's key    *)
(*    set, so that a missing key (KeyError, or the default of .get) is     *)
(*    visible; a list is a sequence;                                       *)
(*  - a call that may raise returns Ret(value) or Raise(exception text);   *)
(*  - json.dumps(body) is represented by the dict `body` it serialises.    *)
(* Characters are those of U+0020..U+00FF without U+0060 and U+007F..      *)
(* U+009F, and the control characters \t \n \f \r; on them str.lower()    *)
(* maps one character to one character.  Integers are those of TLC.        *)
(* The search collaborator (services.search_service.SearchService) is not  *)
(* part of the module: its behaviour for one call is an input, `service`.  *)
(***************************************************************************)
EXTENDS Integers, Sequences, FiniteSets

VARIABLES event, service, pc, search_query, brave_result, imslp_results, image_url, response, calls

vars == <<event, service, pc, search_query, brave_result, imslp_results, image_url, response, calls>>

(***************************************************************************)
(* Bounds of the model.                                                    *)
(***************************************************************************)
\* A query is the concatenation of at most MaxFragments different fragments.
MaxFragments == 2

\* The collaborator's result list holds at most MaxResults entries.
MaxResults == 3

(***************************************************************************)
(* Python built-ins used by the handlers.                                  *)
(***************************************************************************)
NoneVal == [py_none |-> TRUE]

Str(s) == [py_type |-> "str", val |-> s]

IntVal(n) == [py_type |-> "int", val |-> n]

List(l) == [py_type |-> "list", val |-> l]

\* A dict parsed from JSON: its items [key, value] in insertion order, the
\* keys being strings and distinct.
Dict(items) == [py_type |-> "dict", val |-> items]

\* A float, kept as the text of its JSON literal.
Float(literal) == [py_type |-> "float", val |-> literal]

Bool(b) == [py_type |-> "bool", val |-> b]

\* type(v).__name__
type_of(v) == IF v = NoneVal THEN "NoneType" ELSE v.py_type

is_str(v) == type_of(v) = "str"

\* key in d
dict_has(items, key) == \E i \in 1..Len(items) : items[i].key = key

\* d[key], for a key that d has
dict_get(items, key) == items[CHOOSE i \in 1..Len(items) : items[i].key = key].value

\* The items of d after d[key] = value
dict_set(items, key, value) ==
    IF dict_has(items, key)
    THEN [i \in 1..Len(items) |->
            IF items[i].key = key THEN [key |-> key, value |-> value] ELSE items[i]]
    ELSE Append(items, [key |-> key, value |-> value])

\* The outcome of a call: a returned value, or a raised exception with str(e).
Ret(v) == [raised |-> FALSE, value |-> v]

Raise(text) == [raised |-> TRUE, text |-> text]

\* The cased letters of U+0000..U+00FF: A-Z, and U+00C0..U+00DE without U+00D7.
UpperCase == <<"A","B","C","D","E","F","G","H","I","J","K","L","M","N","O","P","Q","R","S","T","U","V","W","X","Y","Z","À","Á","Â","Ã","Ä","Å","Æ","Ç","È","É","Ê","Ë","Ì","Í","Î","Ï","Ð","Ñ","Ò","Ó","Ô","Õ","Ö","Ø","Ù","Ú","Û","Ü","Ý","Þ">>

LowerCase == <<"a","b","c","d","e","f","g","h","i","j","k","l","m","n","o","p","q","r","s","t","u","v","w","x","y","z","à","á","â","ã","ä","å","æ","ç","è","é","ê","ë","ì","í","î","ï","ð","ñ","ò","ó","ô","õ","ö","ø","ù","ú","û","ü","ý","þ">>

\* The lower-case form of each upper-case letter.
lower_map ==
    [c \in {UpperCase[i] : i \in 1..Len(UpperCase)} |->
        LowerCase[CHOOSE i \in 1..Len(UpperCase) : UpperCase[i] = c]]

\* str.lower() on one character.
lower_char(c) == IF c \in DOMAIN lower_map THEN lower_map[c] ELSE c

\* str.lower() on the characters of a string
lower(s) == [i \in 1..Len(s) |-> lower_char(s[i])]

\* `sub in s` on strings
contains(sub, s) ==
    \/ sub = <<>>
    \/ \E i \in 1..Len(s) :
           /\ s[i] = sub[1]
           /\ i + Len(sub) <= Len(s) + 1
           /\ SubSeq(s, i, i + Len(sub) - 1) = sub

\* s.replace(old, new) for one-character old and new
replace(s, old, new) == [i \in 1..Len(s) |-> IF s[i] = old THEN new ELSE s[i]]

\* v.lower(): AttributeError when v is not a string
py_lower(v) ==
    IF is_str(v)
    THEN Ret(Str(lower(v.val)))
    ELSE Raise("'" \o type_of(v) \o "' object has no attribute 'lower'")

\* v.replace(old, new): AttributeError when v is not a string
py_replace(v, old, new) ==
    IF is_str(v)
    THEN Ret(Str(replace(v.val, old, new)))
    ELSE Raise("'" \o type_of(v) \o "' object has no attribute 'replace'")

\* The characters of the model: U+0020..U+007E and U+00A0..U+00FF, each at
\* the place of its code point, and the control characters \t \n \f \r.
\* U+0060 cannot be written in a string of this module; its place holds "".
Ascii == <<" ","!","\"","#","$","%","&","'","(",")","*","+",",","-",".","/","0","1","2","3","4","5","6","7","8","9",":",";","<","=",">","?","@","A","B","C","D","E","F","G","H","I","J","K","L","M","N","O","P","Q","R","S","T","U","V","W","X","Y","Z","[","\\","]","^","_","","a","b","c","d","e","f","g","h","i","j","k","l","m","n","o","p","q","r","s","t","u","v","w","x","y","z","{","|","}","~">>

Latin1Supplement == <<" ","¡","¢","£","¤","¥","¦","§","¨","©","ª","«","¬","­","®","¯","°","±","²","³","´","µ","¶","·","¸","¹","º","»","¼","½","¾","¿","À","Á","Â","Ã","Ä","Å","Æ","Ç","È","É","Ê","Ë","Ì","Í","Î","Ï","Ð","Ñ","Ò","Ó","Ô","Õ","Ö","×","Ø","Ù","Ú","Û","Ü","Ý","Þ","ß","à","á","â","ã","ä","å","æ","ç","è","é","ê","ë","ì","í","î","ï","ð","ñ","ò","ó","ô","õ","ö","÷","ø","ù","ú","û","ü","ý","þ","ÿ">>

NoBreakSpace == Latin1Supplement[1]

SoftHyphen == Latin1Supplement[14]

\* chr(code); a code point outside the characters of the model has no value.
chr(code) ==
    CASE code \in 32..126 /\ Ascii[code - 31] # "" -> Ascii[code - 31]
      [] code \in 160..255 -> Latin1Supplement[code - 159]
      [] code = 9 -> "\t"
      [] code = 10 -> "\n"
      [] code = 12 -> "\f"
      [] code = 13 -> "\r"

Characters == {chr(code) : code \in ((32..126) \ {96}) \cup (160..255) \cup {9, 10, 12, 13}}

\* The characters for which str.isprintable() holds.
Printable == Characters \ {"\t", "\n", "\f", "\r", NoBreakSpace, SoftHyphen}

DecimalDigits == <<"0","1","2","3","4","5","6","7","8","9">>

\* str(n) for an int n
RECURSIVE int_str(_)
int_str(n) ==
    IF n < 0
    THEN <<"-">> \o int_str(0 - n)
    ELSE IF n < 10
         THEN <<DecimalDigits[n + 1]>>
         ELSE int_str(n \div 10) \o <<DecimalDigits[(n % 10) + 1]>>

\* repr of one character of a string that repr encloses in `quote`.
char_repr(c, quote) ==
    CASE c = quote \/ c = "\\" -> <<"\\", c>>
      [] c = "\t" -> <<"\\","t">>
      [] c = "\n" -> <<"\\","n">>
      [] c = "\r" -> <<"\\","r">>
      [] c = "\f" -> <<"\\","x","0","c">>
      [] c = NoBreakSpace -> <<"\\","x","a","0">>
      [] c = SoftHyphen -> <<"\\","x","a","d">>
      [] c \in Printable \ {quote, "\\"} -> <<c>>

RECURSIVE chars_repr(_, _)
chars_repr(s, quote) ==
    IF s = <<>>
    THEN <<>>
    ELSE char_repr(Head(s), quote) \o chars_repr(Tail(s), quote)

\* repr(s) of a string: in single quotes, or in double quotes when s holds a
\* single quote and no double quote.
str_repr(s) ==
    LET quote == IF /\ \E i \in 1..Len(s) : s[i] = "'"
                    /\ ~\E i \in 1..Len(s) : s[i] = "\""
                 THEN "\""
                 ELSE "'"
    IN  <<quote>> \o chars_repr(s, quote) \o <<quote>>

\* repr(v) for None, a bool, an int, a string, a list and a dict; the repr
\* of a float is not modelled.
RECURSIVE py_repr(_), items_repr(_), pairs_repr(_)
py_repr(v) ==
    CASE type_of(v) = "NoneType" -> <<"N","o","n","e">>
      [] type_of(v) = "bool" -> IF v.val THEN <<"T","r","u","e">> ELSE <<"F","a","l","s","e">>
      [] type_of(v) = "int" -> int_str(v.val)
      [] type_of(v) = "str" -> str_repr(v.val)
      [] type_of(v) = "list" -> <<"[">> \o items_repr(v.val) \o <<"]">>
      [] type_of(v) = "dict" -> <<"{">> \o pairs_repr(v.val) \o <<"}">>

\* The repr of the items of a list, joined by ", ".
items_repr(l) ==
    IF l = <<>>
    THEN <<>>
    ELSE py_repr(Head(l))
         \o (IF Tail(l) = <<>> THEN <<>> ELSE <<","," ">> \o items_repr(Tail(l)))

\* The repr of the items of a dict, key: value, joined by ", ".
pairs_repr(items) ==
    IF items = <<>>
    THEN <<>>
    ELSE str_repr(Head(items).key) \o <<":"," ">> \o py_repr(Head(items).value)
         \o (IF Tail(items) = <<>> THEN <<>> ELSE <<","," ">> \o pairs_repr(Tail(items)))

\* str(v), as an f-string formats {v}: a string as it is, any other value
\* as its repr.
py_str(v) == IF is_str(v) THEN v.val ELSE py_repr(v)

\* The characters of a string as one text.
RECURSIVE text_of(_)
text_of(s) == IF s = <<>> THEN "" ELSE Head(s) \o text_of(Tail(s))

\* bool(v)
truthy(v) ==
    CASE v = NoneVal -> FALSE
      [] type_of(v) = "bool" -> v.val
      [] type_of(v) = "int" -> v.val # 0
      [] type_of(v) \in {"str", "list", "dict"} -> v.val # <<>>

\* `key in v` for a string key: a key of a dict, an element of a list, a
\* substring of a string; TypeError on any other value.
py_in(key, v) ==
    CASE type_of(v) = "dict" -> Ret(dict_has(v.val, key))
      [] type_of(v) = "list" -> Ret(\E i \in 1..Len(v.val) : is_str(v.val[i]) /\ v.val[i].val = key)
      [] type_of(v) = "str" -> Ret(contains(key, v.val))
      [] OTHER -> Raise("argument of type '" \o type_of(v) \o "' is not iterable")

\* v[key] for a string key: KeyError on a dict without the key, TypeError
\* on a value that is not a dict.
subscript(v, key) ==
    CASE type_of(v) = "dict" ->
            IF dict_has(v.val, key) THEN Ret(dict_get(v.val, key)) ELSE Raise(text_of(str_repr(key)))
      [] type_of(v) = "list" -> Raise("list indices must be integers or slices, not str")
      [] type_of(v) = "str" -> Raise("string indices must be integers, not 'str'")
      [] OTHER -> Raise("'" \o type_of(v) \o "' object is not subscriptable")

\* v.get(key, ''): AttributeError on a value that is not a dict.
py_get(v, key) ==
    IF type_of(v) = "dict"
    THEN Ret(IF dict_has(v.val, key) THEN dict_get(v.val, key) ELSE Str(<<>>))
    ELSE Raise("'" \o type_of(v) \o "' object has no attribute 'get'")

\* The values `for x in v` goes through: the elements of a list, the keys
\* of a dict, the characters of a string; TypeError on any other value.
py_iter(v) ==
    CASE type_of(v) = "list" -> Ret(v.val)
      [] type_of(v) = "dict" -> Ret([i \in 1..Len(v.val) |-> Str(v.val[i].key)])
      [] type_of(v) = "str" -> Ret([i \in 1..Len(v.val) |-> Str(<<v.val[i]>>)])
      [] OTHER -> Raise("'" \o type_of(v) \o "' object is not iterable")

\* Lines 112-114: result.get(key, '') for the three fields of a search result
get_url(result) == py_get(result, <<"u","r","l">>)

get_title(result) == py_get(result, <<"t","i","t","l","e">>)

get_description(result) == py_get(result, <<"d","e","s","c","r","i","p","t","i","o","n">>)

\* The least element of a non-empty set of naturals (first in iteration order).
First(S) == CHOOSE i \in S : \A j \in S : i <= j

(***************************************************************************)
(* get_mock_mutopia_results: the static table, in declaration order, and   *)
(* the generic fallback.                                                   *)
(***************************************************************************)
MoonlightRecord ==
    [title |-> Str(<<"P","i","a","n","o"," ","S","o","n","a","t","a"," ","N","o","."," ","1","4"," ","\"","M","o","o","n","l","i","g","h","t","\"">>),
     composer |-> "Ludwig van Beethoven",
     mutopia_url |-> "https://www.mutopiaproject.org/cgibin/make-table.cgi?Composer=Beethoven&title=Piano%20Sonata%20No.%2014",
     pdf_url |-> Str(<<"h","t","t","p","s",":","/","/","v","i","a",".","p","l","a","c","e","h","o","l","d","e","r",".","c","o","m","/","8","0","0","x","1","0","0","0","/","f","f","f","f","f","f","/","0","0","0","0","0","0","?","t","e","x","t","=","M","o","o","n","l","i","g","h","t","+","S","o","n","a","t","a","+","P","D","F">>),
     description |-> Str(<<"F","i","r","s","t"," ","m","o","v","e","m","e","n","t"," ","-"," ","A","d","a","g","i","o"," ","s","o","s","t","e","n","u","t","o">>),
     opus |-> "Op. 27, No. 2",
     demo_note |-> "For demo purposes - PDF may not be available at this URL"]

BachRecord ==
    [title |-> Str(<<"P","r","e","l","u","d","e"," ","a","n","d"," ","F","u","g","u","e"," ","i","n"," ","C"," ","m","a","j","o","r",","," ","B","W","V"," ","8","4","6">>),
     composer |-> "Johann Sebastian Bach",
     mutopia_url |-> "https://www.mutopiaproject.org/cgibin/make-table.cgi?Composer=Bach&title=Prelude%20and%20Fugue",
     pdf_url |-> Str(<<"h","t","t","p","s",":","/","/","w","w","w",".","m","u","t","o","p","i","a","p","r","o","j","e","c","t",".","o","r","g","/","f","t","p","/","B","a","c","h","J","S","/","B","W","V","8","4","6","/","b","a","c","h","-","p","r","e","l","u","d","e","-","f","u","g","u","e","-","b","w","v","8","4","6","/","b","a","c","h","-","p","r","e","l","u","d","e","-","f","u","g","u","e","-","b","w","v","8","4","6","-","a","4",".","p","d","f">>),
     description |-> Str(<<"F","r","o","m"," ","T","h","e"," ","W","e","l","l","-","T","e","m","p","e","r","e","d"," ","C","l","a","v","i","e","r",","," ","B","o","o","k"," ","I">>),
     opus |-> "BWV 846"]

ChopinRecord ==
    [title |-> Str(<<"N","o","c","t","u","r","n","e"," ","i","n"," ","E","-","f","l","a","t"," ","m","a","j","o","r",","," ","O","p","."," ","9",","," ","N","o","."," ","2">>),
     composer |-> "Frédéric Chopin",
     mutopia_url |-> "https://www.mutopiaproject.org/cgibin/make-table.cgi?Composer=Chopin&title=Nocturne",
     pdf_url |-> Str(<<"h","t","t","p","s",":","/","/","w","w","w",".","m","u","t","o","p","i","a","p","r","o","j","e","c","t",".","o","r","g","/","f","t","p","/","C","h","o","p","i","n","F","F","/","O","0","9","_","2","/","c","h","o","p","i","n","-","n","o","c","t","u","r","n","e","-","o","p","9","-","2","/","c","h","o","p","i","n","-","n","o","c","t","u","r","n","e","-","o","p","9","-","2","-","a","4",".","p","d","f">>),
     description |-> Str(<<"O","n","e"," ","o","f"," ","C","h","o","p","i","n","'","s"," ","m","o","s","t"," ","f","a","m","o","u","s"," ","n","o","c","t","u","r","n","e","s">>),
     opus |-> "Op. 9, No. 2"]

\* The dict mock_results as its items, in insertion (= iteration) order.
mock_results ==
    << [key |-> <<"m","o","o","n","l","i","g","h","t"," ","s","o","n","a","t","a">>, results |-> <<MoonlightRecord>>],
       [key |-> <<"b","a","c","h">>, results |-> <<BachRecord>>],
       [key |-> <<"c","h","o","p","i","n">>, results |-> <<ChopinRecord>>] >>

\* The default fallback record for `query`.
default_fallback(query) ==
    [title |-> Str(<<"C","l","a","s","s","i","c","a","l"," ","M","u","s","i","c"," ","S","e","a","r","c","h"," ","R","e","s","u","l","t">>),
     composer |-> "Unknown Composer",
     imslp_url |-> "https://imslp.org/",
     pdf_url |-> Str(<<"h","t","t","p","s",":","/","/","i","m","s","l","p",".","o","r","g","/","w","i","k","i","/","S","p","e","c","i","a","l",":","I","M","S","L","P","D","i","s","c","l","a","i","m","e","r","A","c","c","e","p","t","/","2","8","5","2","4">>),
     description |-> Str(<<"S","e","a","r","c","h"," ","r","e","s","u","l","t"," ","f","o","r"," ","\"">> \o py_str(query) \o <<"\"">>)]

\* Variant: the generic fallback is missing, an unmatched query yields no record.
get_mock_no_fallback(query) ==
    LET lowered == py_lower(query)
    IN  IF lowered.raised
        THEN lowered
        ELSE LET query_lower == lowered.value.val
                 hits == {i \in 1..Len(mock_results) : contains(mock_results[i].key, query_lower)}
             IN  IF hits # {}
                 THEN Ret(mock_results[First(hits)].results)
                 ELSE Ret(<<>>)

\* Variant: the keys are matched against the query as typed, not lower-cased.
get_mock_case_sensitive(query) ==
    LET lowered == py_lower(query)
    IN  IF lowered.raised
        THEN lowered
        ELSE LET hits == {i \in 1..Len(mock_results) : contains(mock_results[i].key, query.val)}
             IN  IF hits # {}
                 THEN Ret(mock_results[First(hits)].results)
                 ELSE Ret(<<default_fallback(query)>>)

\* Variant: the last matching key wins instead of the first.
get_mock_last_key_wins(query) ==
    LET lowered == py_lower(query)
    IN  IF lowered.raised
        THEN lowered
        ELSE LET query_lower == lowered.value.val
                 hits == {i \in 1..Len(mock_results) : contains(mock_results[i].key, query_lower)}
             IN  IF hits # {}
                 THEN Ret(mock_results[CHOOSE i \in hits : \A j \in hits : j <= i].results)
                 ELSE Ret(<<default_fallback(query)>>)
\* Line 168 raises AttributeError when the query is not a string.
get_mock_mutopia_results(query) ==
    LET lowered == py_lower(query)
    IN  IF lowered.raised
        THEN lowered
        ELSE LET query_lower == lowered.value.val
                 hits == {i \in 1..Len(mock_results) : contains(mock_results[i].key, query_lower)}
             IN  IF hits # {}
                 THEN Ret(mock_results[First(hits)].results)
                 ELSE Ret(<<default_fallback(query)>>)

(***************************************************************************)
(* search_mutopia_with_brave.  The whole body runs inside try/except       *)
(* Exception, so a collaborator that raises, a response or a result list   *)
(* of another shape than the code reads, a result that is not a dict, or   *)
(* a result field without .lower(), yields None.  The response of the      *)
(* collaborator does not depend on the scoped query in this model: it is   *)
(* an input.                                                               *)
(***************************************************************************)
\* Line 109: `response and 'web' in response and 'results' in response['web']`,
\* as the truth of the condition, or the exception it raises.
has_web_results(resp) ==
    IF ~truthy(resp)
    THEN Ret(FALSE)
    ELSE IF py_in(<<"w","e","b">>, resp).raised \/ ~py_in(<<"w","e","b">>, resp).value
    THEN py_in(<<"w","e","b">>, resp)
    ELSE IF subscript(resp, <<"w","e","b">>).raised
    THEN subscript(resp, <<"w","e","b">>)
    ELSE py_in(<<"r","e","s","u","l","t","s">>, subscript(resp, <<"w","e","b">>).value)

\* Lines 110-111: the values the loop over response['web']['results'] goes
\* through, or the exception raised on the way.
web_results(resp) ==
    IF subscript(subscript(resp, <<"w","e","b">>).value, <<"r","e","s","u","l","t","s">>).raised
    THEN subscript(subscript(resp, <<"w","e","b">>).value, <<"r","e","s","u","l","t","s">>)
    ELSE py_iter(subscript(subscript(resp, <<"w","e","b">>).value, <<"r","e","s","u","l","t","s">>).value)

\* Lines 112-117 on one result: "match", "skip", or "raise" when the
\* result has no .get or the operand reached has no .lower().
has_pdf_signal(result) ==
    IF get_url(result).raised
    THEN "raise"
    ELSE LET url == py_lower(get_url(result).value)
             description == py_lower(get_description(result).value)
         IN  IF url.raised
             THEN "raise"
             ELSE IF contains(<<"p","d","f">>, url.value.val)
                  THEN "match"
                  ELSE IF description.raised
                       THEN "raise"
                       ELSE IF contains(<<"p","d","f">>, description.value.val) THEN "match" ELSE "skip"

\* The dict returned for a matching result.
brave_record(result) ==
    [title |-> get_title(result).value,
     pdf_url |-> get_url(result).value,
     description |-> get_description(result).value,
     source |-> "Mutopia Project (Brave Search)"]

\* Variant: only the url is inspected for "pdf", the description is not.
search_mutopia_url_only(query, svc) ==
    IF svc.raises
    THEN NoneVal
    ELSE IF has_web_results(svc.response).raised \/ ~has_web_results(svc.response).value
    THEN NoneVal
    ELSE IF web_results(svc.response).raised
    THEN NoneVal
    ELSE LET results == web_results(svc.response).value
             url(i) == IF get_url(results[i]).raised
                       THEN get_url(results[i])
                       ELSE py_lower(get_url(results[i]).value)
             stops == {i \in 1..Len(results) :
                         url(i).raised \/ contains(<<"p","d","f">>, url(i).value.val)}
         IN  IF stops # {} /\ ~url(First(stops)).raised
             THEN brave_record(results[First(stops)])
             ELSE NoneVal
search_mutopia_with_brave(query, svc) ==
    IF svc.raises
    THEN NoneVal
    ELSE IF has_web_results(svc.response).raised \/ ~has_web_results(svc.response).value
    THEN NoneVal
    ELSE IF web_results(svc.response).raised
    THEN NoneVal
    ELSE LET results == web_results(svc.response).value
             stops == {i \in 1..Len(results) : has_pdf_signal(results[i]) # "skip"}
         IN  IF stops # {} /\ has_pdf_signal(results[First(stops)]) = "match"
             THEN brave_record(results[First(stops)])
             ELSE NoneVal

(***************************************************************************)
(* search_imslp.  search_mutopia_with_brave catches its own exceptions;    *)
(* an exception of get_mock_mutopia_results reaches the except clause,     *)
(* which returns the empty list.                                           *)
(***************************************************************************)
\* Variant: a collaborator failure reaches the except clause of search_imslp,
\* which returns the empty list.
search_imslp_failure_empties(query, svc) ==
    LET result == search_mutopia_with_brave(query, svc)
        mock == get_mock_mutopia_results(query)
    IN  IF svc.raises
        THEN <<>>
        ELSE IF result # NoneVal
             THEN <<result>>
             ELSE IF mock.raised THEN <<>> ELSE mock.value

\* Variant: the static table is consulted before the live search.
search_imslp_table_first(query, svc) ==
    LET result == search_mutopia_with_brave(query, svc)
        mock == get_mock_mutopia_results(query)
    IN  IF ~mock.raised /\ mock.value # <<default_fallback(query)>>
        THEN mock.value
        ELSE IF result # NoneVal
             THEN <<result>>
             ELSE IF mock.raised THEN <<>> ELSE mock.value
search_imslp(query, svc) ==
    LET result == search_mutopia_with_brave(query, svc)
        mock == get_mock_mutopia_results(query)
    IN  IF result # NoneVal
        THEN <<result>>
        ELSE IF mock.raised THEN <<>> ELSE mock.value

\* The functions search_imslp enters, in call order.
search_imslp_calls(query, svc) ==
    <<"search_imslp", "search_mutopia_with_brave">>
    \o (IF search_mutopia_with_brave(query, svc) # NoneVal
        THEN <<>>
        ELSE <<"get_mock_mutopia_results">>)

(***************************************************************************)
(* convert_pdf_to_image                                                    *)
(***************************************************************************)
PlaceholderPrefix == <<"h","t","t","p","s",":","/","/","v","i","a",".","p","l","a","c","e","h","o","l","d","e","r",".","c","o","m","/","8","0","0","x","1","0","0","0","/","f","f","f","f","f","f","/","0","0","0","0","0","0","?","t","e","x","t","=">>

\* Variant: only the first space of the title is replaced.
convert_first_space_only(pdf_url, title) ==
    IF ~is_str(title)
    THEN NoneVal
    ELSE LET spaces == {i \in 1..Len(title.val) : title.val[i] = " "}
         IN  Str(PlaceholderPrefix
                 \o [i \in 1..Len(title.val) |->
                       IF spaces # {} /\ i = First(spaces) THEN "+" ELSE title.val[i]])
\* The except clause returns None when title.replace raises.
convert_pdf_to_image(pdf_url, title) ==
    LET replaced == py_replace(title, " ", "+")
    IN  IF replaced.raised
        THEN NoneVal
        ELSE Str(PlaceholderPrefix \o replaced.value.val)

(***************************************************************************)
(* json.loads, as the decoder of the standard library computes it: the     *)
(* value of a JSON text, or the JSONDecodeError with its message and       *)
(* position.  Positions count from 0, as in Python; s[i + 1] is the        *)
(* character at position i.                                                *)
(***************************************************************************)
\* The result of a scanning step: a value and the position after it, or an
\* error message and its position.
Ok(v, end) == [ok |-> TRUE, value |-> v, end |-> end]

Fail(msg, pos) == [ok |-> FALSE, msg |-> msg, pos |-> pos]

WHITESPACE == {" ", "\t", "\n", "\r"}

\* s[i:i+1]
char_at(s, i) == IF i < Len(s) THEN s[i + 1] ELSE ""

\* s[i:i+len(word)] == word
starts_with(s, i, word) ==
    /\ i + Len(word) <= Len(s)
    /\ SubSeq(s, i + 1, i + Len(word)) = word

RECURSIVE skip_whitespace(_, _)
skip_whitespace(s, i) ==
    IF i < Len(s) /\ s[i + 1] \in WHITESPACE
    THEN skip_whitespace(s, i + 1)
    ELSE i

RECURSIVE skip_digits(_, _)
skip_digits(s, i) ==
    IF i < Len(s) /\ \E d \in 1..10 : DecimalDigits[d] = s[i + 1]
    THEN skip_digits(s, i + 1)
    ELSE i

\* int(digits) for a string of decimal digits
RECURSIVE int_of(_)
int_of(digits) ==
    IF digits = <<>>
    THEN 0
    ELSE int_of(SubSeq(digits, 1, Len(digits) - 1)) * 10
         + (CHOOSE d \in 0..9 : DecimalDigits[d + 1] = digits[Len(digits)])

HexLower == <<"0","1","2","3","4","5","6","7","8","9","a","b","c","d","e","f">>

HexUpper == <<"0","1","2","3","4","5","6","7","8","9","A","B","C","D","E","F">>

is_hex(c) == \E h \in 1..16 : HexLower[h] = c \/ HexUpper[h] = c

hex_value(c) == (CHOOSE h \in 1..16 : HexLower[h] = c \/ HexUpper[h] = c) - 1

\* The value of the four hexadecimal digits at position i, or -1: the
\* decoder wants four digits and one more character after them.
hex4(s, i) ==
    IF i + 4 < Len(s) /\ \A k \in 1..4 : is_hex(s[i + k])
    THEN hex_value(s[i + 1]) * 4096 + hex_value(s[i + 2]) * 256
         + hex_value(s[i + 3]) * 16 + hex_value(s[i + 4])
    ELSE -1

\* The character of an escape \c other than \u; \b has no character in
\* the model.
BACKSLASH(c) ==
    CASE c = "\"" -> "\""
      [] c = "\\" -> "\\"
      [] c = "/" -> "/"
      [] c = "f" -> "\f"
      [] c = "n" -> "\n"
      [] c = "r" -> "\r"
      [] c = "t" -> "\t"

\* scanstring: the string whose opening quote is at `begin`, read from
\* position `end`, `acc` being the characters read so far.  The characters
\* up to the next quote, backslash or control character are taken as they
\* are.  An escape \uXXXX of a code point that is not a character of the
\* model (a surrogate pair among them) has no value.
RECURSIVE scanstring(_, _, _, _)
scanstring(s, end, begin, acc) ==
    LET terminators == {"\"", "\\", "\t", "\n", "\f", "\r"}
        stops == {i \in end..(Len(s) - 1) : s[i + 1] \in terminators}
        stop == CHOOSE i \in stops : \A j \in end..(i - 1) : s[j + 1] \notin terminators
        content == acc \o SubSeq(s, end + 1, stop)
        esc == s[stop + 2]
    IN  IF stops = {}
        THEN Fail("Unterminated string starting at", begin)
        ELSE IF s[stop + 1] = "\""
        THEN Ok(content, stop + 1)
        ELSE IF s[stop + 1] # "\\"
        THEN Fail("Invalid control character at", stop)
        ELSE IF stop + 1 >= Len(s)
        THEN Fail("Unterminated string starting at", begin)
        ELSE IF esc = "u"
        THEN IF hex4(s, stop + 2) = -1
             THEN Fail("Invalid \\uXXXX escape", stop + 1)
             ELSE scanstring(s, stop + 6, begin, Append(content, chr(hex4(s, stop + 2))))
        ELSE IF esc \in {"\"", "\\", "/", "b", "f", "n", "r", "t"}
        THEN scanstring(s, stop + 2, begin, Append(content, BACKSLASH(esc)))
        ELSE Fail("Invalid \\escape", stop)

\* The number that starts at idx: -?(0|[1-9][0-9]*)(\.[0-9]+)?([eE][-+]?[0-9]+)?
\* An int is its value; a float is kept as the text of its literal.
match_number(s, idx) ==
    LET first == IF char_at(s, idx) = "-" THEN idx + 1 ELSE idx
        int_end == IF char_at(s, first) = "0" THEN first + 1 ELSE skip_digits(s, first)
        frac_end == IF char_at(s, int_end) = "." /\ skip_digits(s, int_end + 1) > int_end + 1
                    THEN skip_digits(s, int_end + 1)
                    ELSE int_end
        exp_digits == IF char_at(s, frac_end + 1) \in {"+", "-"} THEN frac_end + 2 ELSE frac_end + 1
        exp_end == IF char_at(s, frac_end) \in {"e", "E"} /\ skip_digits(s, exp_digits) > exp_digits
                   THEN skip_digits(s, exp_digits)
                   ELSE frac_end
        magnitude == int_of(SubSeq(s, first + 1, int_end))
    IN  IF int_end = first
        THEN Fail("Expecting value", idx)
        ELSE IF exp_end = int_end
             THEN Ok(IntVal(IF first = idx THEN magnitude ELSE 0 - magnitude), int_end)
             ELSE Ok(Float(SubSeq(s, idx + 1, exp_end)), exp_end)

\* scan_once, JSONObject and JSONArray.  object_items reads the items of
\* an object from the position of a key; array_items reads the items of an
\* array from the position of a value.
RECURSIVE scan_once(_, _), object_items(_, _, _), array_items(_, _, _)
scan_once(s, idx) ==
    LET c == char_at(s, idx)
        number == match_number(s, idx)
    IN  IF c = "\""
        THEN LET string == scanstring(s, idx + 1, idx, <<>>)
             IN  IF string.ok THEN Ok(Str(string.value), string.end) ELSE string
        ELSE IF c = "{"
        THEN LET end == skip_whitespace(s, idx + 1)
             IN  IF char_at(s, end) = "}" THEN Ok(Dict(<<>>), end + 1) ELSE object_items(s, end, <<>>)
        ELSE IF c = "["
        THEN LET end == skip_whitespace(s, idx + 1)
             IN  IF char_at(s, end) = "]" THEN Ok(List(<<>>), end + 1) ELSE array_items(s, end, <<>>)
        ELSE IF starts_with(s, idx, <<"n","u","l","l">>) THEN Ok(NoneVal, idx + 4)
        ELSE IF starts_with(s, idx, <<"t","r","u","e">>) THEN Ok(Bool(TRUE), idx + 4)
        ELSE IF starts_with(s, idx, <<"f","a","l","s","e">>) THEN Ok(Bool(FALSE), idx + 5)
        ELSE IF number.ok THEN number
        ELSE IF starts_with(s, idx, <<"N","a","N">>) THEN Ok(Float(<<"N","a","N">>), idx + 3)
        ELSE IF starts_with(s, idx, <<"I","n","f","i","n","i","t","y">>) THEN Ok(Float(<<"I","n","f","i","n","i","t","y">>), idx + 8)
        ELSE IF starts_with(s, idx, <<"-","I","n","f","i","n","i","t","y">>) THEN Ok(Float(<<"-","I","n","f","i","n","i","t","y">>), idx + 9)
        ELSE Fail("Expecting value", idx)

object_items(s, end, pairs) ==
    IF char_at(s, end) # "\""
    THEN Fail("Expecting property name enclosed in double quotes", end)
    ELSE LET key == scanstring(s, end + 1, end, <<>>)
         IN  IF ~key.ok
             THEN key
             ELSE LET colon == skip_whitespace(s, key.end)
                  IN  IF char_at(s, colon) # ":"
                      THEN Fail("Expecting ':' delimiter", colon)
                      ELSE LET value == scan_once(s, skip_whitespace(s, colon + 1))
                           IN  IF ~value.ok
                               THEN value
                               ELSE LET next == skip_whitespace(s, value.end)
                                        items == dict_set(pairs, key.value, value.value)
                                    IN  IF char_at(s, next) = "}"
                                        THEN Ok(Dict(items), next + 1)
                                        ELSE IF char_at(s, next) # ","
                                             THEN Fail("Expecting ',' delimiter", next)
                                             ELSE object_items(s, skip_whitespace(s, next + 1), items)

array_items(s, end, values) ==
    LET value == scan_once(s, end)
    IN  IF ~value.ok
        THEN value
        ELSE LET next == skip_whitespace(s, value.end)
                 items == Append(values, value.value)
             IN  IF char_at(s, next) = "]"
                 THEN Ok(List(items), next + 1)
                 ELSE IF char_at(s, next) # ","
                      THEN Fail("Expecting ',' delimiter", next)
                      ELSE array_items(s, skip_whitespace(s, next + 1), items)

\* str(JSONDecodeError(msg, doc, pos)): the message with the line, the
\* column and the position.
decode_error(doc, msg, pos) ==
    LET newlines == {i \in 1..pos : doc[i] = "\n"}
        lineno == Cardinality(newlines) + 1
        colno == IF newlines = {}
                 THEN pos + 1
                 ELSE pos - (CHOOSE i \in newlines : \A j \in newlines : j <= i) + 1
    IN  msg \o ": line " \o text_of(int_str(lineno)) \o " column " \o text_of(int_str(colno))
            \o " (char " \o text_of(int_str(pos)) \o ")"

\* JSONDecoder.decode once raw_decode has read `obj`: its error, or the
\* value when only white space follows it.
decode_end(s, obj) ==
    IF ~obj.ok
    THEN Raise(decode_error(s, obj.msg, obj.pos))
    ELSE IF skip_whitespace(s, obj.end) # Len(s)
         THEN Raise(decode_error(s, "Extra data", skip_whitespace(s, obj.end)))
         ELSE Ret(obj.value)

\* JSONDecoder.decode: one value, white space around it, and nothing else.
decode(s) == decode_end(s, scan_once(s, skip_whitespace(s, 0)))

\* json.loads(body): TypeError for a body that is not a string.  A string
\* that holds another character than those of the model has no value.
json_loads(body) ==
    IF is_str(body)
    THEN CASE \A i \in 1..Len(body.val) : body.val[i] \in Characters -> decode(body.val)
    ELSE Raise("the JSON object must be str, bytes or bytearray, not " \o type_of(body))

\* Line 15: body['query']
subscript_query(body) == subscript(body, <<"q","u","e","r","y">>)

(***************************************************************************)
(* handler                                                                 *)
(***************************************************************************)
headers == [ContentType |-> "application/json", AccessControlAllowOrigin |-> "*"]

\* Line 14 after event['body']: `body` is the outcome of the subscript.
loads_of(body) == IF body.raised THEN body ELSE json_loads(body.value)

\* Line 15 after line 14: `loaded` is the outcome of json.loads.
query_of(loaded) == IF loaded.raised THEN loaded ELSE subscript_query(loaded.value)

\* Variant: a missing query defaults to the empty string (body.get('query', '')).
query_or_default(loaded) ==
    IF loaded.raised
    THEN loaded
    ELSE IF type_of(loaded.value) = "dict" /\ ~dict_has(loaded.value.val, <<"q","u","e","r","y">>)
         THEN Ret(Str(<<>>))
         ELSE subscript_query(loaded.value)

parse_request_default_query(ev) == query_or_default(loads_of(subscript(ev, <<"b","o","d","y">>)))
\* Lines 14-15: the query, or the exception the two lines raise.
parse_request(ev) == query_of(loads_of(subscript(ev, <<"b","o","d","y">>)))

\* The except clause of handler.
exception_response(text) ==
    [statusCode |-> 500,
     headers |-> headers,
     body |-> [error |-> text, message |-> "Internal server error"]]

not_found_response(query) ==
    [statusCode |-> 404,
     headers |-> headers,
     body |-> [error |-> "No results found",
               message |-> <<"N","o"," ","c","l","a","s","s","i","c","a","l"," ","m","u","s","i","c"," ","f","o","u","n","d"," ","f","o","r"," ","\"">> \o py_str(query) \o <<"\"">>]]

conversion_failed_response ==
    [statusCode |-> 500,
     headers |-> headers,
     body |-> [error |-> "Failed to process sheet music",
               message |-> "Could not convert PDF to image"]]

\* Lines 53-68: the success response; reading a key first_result lacks raises
\* KeyError, which the except clause turns into a 500.
success_response(results, img) ==
    LET first_result == results[1]
    IN  IF "composer" \notin DOMAIN first_result
        THEN exception_response("'composer'")
        ELSE IF "imslp_url" \notin DOMAIN first_result
             THEN exception_response("'imslp_url'")
             ELSE [statusCode |-> 200,
                   headers |-> headers,
                   body |-> [status |-> "success",
                             title |-> first_result.title,
                             composer |-> first_result.composer,
                             image_url |-> img,
                             imslp_url |-> first_result.imslp_url,
                             description |-> IF "description" \in DOMAIN first_result
                                             THEN first_result.description
                                             ELSE Str(<<>>),
                             results_count |-> Len(results)]]

(***************************************************************************)
(* Inputs.                                                                 *)
(***************************************************************************)
Fragments ==
    { <<"b","a","c","h">>, <<" ","c","h","o","p","i","n">>, <<"c","h","o","p","i","n"," ">>, <<"M","o","o","n","l","i","g","h","t"," ","S","o","n","a","t","a">>,
      <<"s","o","m","e"," ","t","o","t","a","l","l","y"," ","u","n","k","n","o","w","n"," ","p","i","e","c","e"," ","x","y","z">> }

\* The lists of at most n different fragments.
RECURSIVE FragmentLists(_)
FragmentLists(n) ==
    IF n = 0
    THEN {<<>>}
    ELSE LET shorter == FragmentLists(n - 1)
         IN  shorter \cup UNION {{Append(l, f) : f \in {g \in Fragments : \A i \in 1..Len(l) : l[i] # g}} :
                                    l \in shorter}

RECURSIVE Concatenation(_)
Concatenation(l) == IF l = <<>> THEN <<>> ELSE Head(l) \o Concatenation(Tail(l))

QueriesOf(n) == {Concatenation(l) : l \in FragmentLists(n)}

\* The text of a request body {"query": q} for a string q that holds no
\* quote, backslash or control character.
query_body(q) == <<"{","\"","q","u","e","r","y","\"",":"," ","\"">> \o q \o <<"\"","}">>

\* Bodies whose query is a string.
StringQueryBodies == {query_body(q) : q \in QueriesOf(MaxFragments)}

\* Bodies whose query is not a string.
OtherQueryBodies == { <<"{","\"","q","u","e","r","y","\"",":"," ","5","}">>, <<"{","\"","q","u","e","r","y","\"",":"," ","n","u","l","l","}">>, <<"{","\"","q","u","e","r","y","\"",":"," ","[","\"","b","a","c","h","\"","]","}">> }

\* Bodies that are JSON and hold no query.
NoQueryBodies == { <<"{","\"","t","i","t","l","e","\"",":"," ","\"","b","a","c","h","\"","}">>, <<"[","]">>, <<"n","u","l","l">>, <<"\"","b","a","c","h","\"">>, <<"5">> }

\* Bodies that are not JSON.
NotJsonBodies ==
    { <<"n","o","t"," ","j","s","o","n">>, <<"{">>, <<"{","\"","q","u","e","r","y","\"",":"," ","\"","b","a","c","h","\"","}"," ","t","r","a","i","l","i","n","g">>, <<" ","x">>, <<"\n", "{">>,
      <<"[","1",",">>, <<"\"","a","b","c">>, <<"{","\"","q","u","e","r","y","\"",":"," ">> }

\* The event {"body": body}
body_event(body) == Dict(<<[key |-> <<"b","o","d","y">>, value |-> body]>>)

\* Events: with a body that is a string, with a body that is None or a
\* dict, without a body, and events that are not a dict.
Events ==
    {body_event(Str(text)) :
        text \in StringQueryBodies \cup OtherQueryBodies \cup NoQueryBodies \cup NotJsonBodies}
    \cup {body_event(NoneVal), body_event(Dict(<<>>)),
          Dict(<<[key |-> <<"p","a","t","h">>, value |-> Str(<<"/","s","e","a","r","c","h">>)]>>),
          NoneVal, List(<<>>), Str(<<"b","o","d","y">>), IntVal(5)}

\* The result {"url": url, "title": title, "description": description}
result_entry(url, title, description) ==
    Dict(<<[key |-> <<"u","r","l">>, value |-> url], [key |-> <<"t","i","t","l","e">>, value |-> title],
           [key |-> <<"d","e","s","c","r","i","p","t","i","o","n">>, value |-> description]>>)

\* Entries the collaborator may return: "pdf" in the url; "PDF" in the
\* description only, without url and with a null title; no signal, without
\* description; an entry that is not a dict; a url that is not a string
\* beside "PDF" in the description.
ResultEntries ==
    { result_entry(Str(<<"h","t","t","p","s",":","/","/","m",".","o","r","g","/","a",".","p","d","f">>), Str(<<"T","e","s","t"," ","T","i","t","l","e">>), Str(<<"s","c","o","r","e">>)),
      Dict(<<[key |-> <<"t","i","t","l","e">>, value |-> NoneVal],
             [key |-> <<"d","e","s","c","r","i","p","t","i","o","n">>, value |-> Str(<<"F","r","e","e"," ","P","D","F">>)]>>),
      Dict(<<[key |-> <<"u","r","l">>, value |-> Str(<<"h","t","t","p","s",":","/","/","m",".","o","r","g","/","b","a","c","h">>)],
             [key |-> <<"t","i","t","l","e">>, value |-> Str(<<"B","a","c","h"," ","p","a","g","e">>)]>>),
      NoneVal,
      result_entry(NoneVal, Str(<<"N","o"," ","u","r","l">>), Str(<<"F","r","e","e"," ","P","D","F">>)) }

RECURSIVE ResultLists(_)
ResultLists(n) ==
    IF n = 0
    THEN {<<>>}
    ELSE LET shorter == ResultLists(n - 1)
         IN  shorter \cup {Append(l, e) : l \in shorter, e \in ResultEntries}

\* The response {"web": web}
web_response(web) == Dict(<<[key |-> <<"w","e","b">>, value |-> web]>>)

\* The response {"web": {"results": results}}
results_response(results) == web_response(Dict(<<[key |-> <<"r","e","s","u","l","t","s">>, value |-> results]>>))

\* Responses of another shape than {"web": {"results": [...]}}.
OtherResponses ==
    { NoneVal, Dict(<<>>), Dict(<<[key |-> <<"m","i","x","e","d">>, value |-> Bool(TRUE)]>>),
      IntVal(5), Str(<<"w","e","b">>), List(<<Str(<<"w","e","b">>)>>),
      web_response(NoneVal), web_response(Dict(<<[key |-> <<"m","i","x","e","d">>, value |-> Bool(TRUE)]>>)),
      web_response(List(<<Str(<<"r","e","s","u","l","t","s">>)>>)),
      results_response(NoneVal), results_response(Str(<<"p","d","f">>)),
      results_response(Dict(<<[key |-> <<"u","r","l">>, value |-> Str(<<"h","t","t","p","s",":","/","/","m",".","o","r","g","/","a",".","p","d","f">>)]>>)) }

\* Result lists with a description that is not a string: beside a url
\* without "pdf", followed by a "pdf" entry; and beside a url with "pdf".
NullDescriptionLists ==
    { <<result_entry(Str(<<"h","t","t","p","s",":","/","/","m",".","o","r","g","/","b","a","c","h">>), Str(<<"B","a","c","h"," ","p","a","g","e">>), NoneVal),
        result_entry(Str(<<"h","t","t","p","s",":","/","/","m",".","o","r","g","/","a",".","p","d","f">>), Str(<<"T","e","s","t"," ","T","i","t","l","e">>), Str(<<"s","c","o","r","e">>))>>,
      <<result_entry(Str(<<"h","t","t","p","s",":","/","/","m",".","o","r","g","/","a",".","p","d","f">>), Str(<<"T","e","s","t"," ","T","i","t","l","e">>), NoneVal)>> }

\* What one use of the collaborator does: it raises (import or request
\* failure), or returns a response: a result list, or a value of another
\* shape.
Services ==
    {[raises |-> TRUE, response |-> NoneVal]}
    \cup {[raises |-> FALSE, response |-> r] : r \in OtherResponses}
    \cup {[raises |-> FALSE, response |-> results_response(List(l))] :
            l \in NullDescriptionLists}
    \cup {[raises |-> FALSE, response |-> results_response(List(l))] :
            l \in ResultLists(MaxResults)}

(***************************************************************************)
(* The invocation, step by step.                                           *)
(***************************************************************************)
Init ==
    /\ event \in Events
    /\ service \in Services
    /\ pc = "parse"
    /\ search_query = NoneVal
    /\ brave_result = NoneVal
    /\ imslp_results = <<>>
    /\ image_url = NoneVal
    /\ response = NoneVal
    /\ calls = <<>>

\* Lines 12-17 and 70-82: parse the request; a failure is the 500 response.
ParseRequest ==
    /\ pc = "parse"
    /\ \E parsed \in {parse_request(event)} :
           IF parsed.raised
           THEN /\ response' = exception_response(parsed.text)
                /\ pc' = "done"
                /\ UNCHANGED search_query
           ELSE /\ search_query' = parsed.value
                /\ pc' = "search"
                /\ UNCHANGED response
    /\ UNCHANGED <<event, service, brave_result, imslp_results, image_url, calls>>

\* Lines 19-33: Step 1, the call of search_imslp, and the 404 response when
\* it returns an empty list.
SearchImslp ==
    /\ pc = "search"
    /\ brave_result' = search_mutopia_with_brave(search_query, service)
    /\ imslp_results' = search_imslp(search_query, service)
    /\ calls' = calls \o search_imslp_calls(search_query, service)
    /\ IF imslp_results' = <<>>
       THEN /\ response' = not_found_response(search_query)
            /\ pc' = "done"
       ELSE /\ pc' = "convert"
            /\ UNCHANGED response
    /\ UNCHANGED <<event, service, search_query, image_url>>

\* Lines 35-82: Step 2, the image of the first result, and the response.
ConvertAndRespond ==
    /\ pc = "convert"
    /\ LET first_result == imslp_results[1]
           img == convert_pdf_to_image(first_result.pdf_url, first_result.title)
       IN  /\ image_url' = img
           /\ response' = IF img = NoneVal \/ img = Str(<<>>)
                          THEN conversion_failed_response
                          ELSE success_response(imslp_results, img)
    /\ calls' = Append(calls, "convert_pdf_to_image")
    /\ pc' = "done"
    /\ UNCHANGED <<event, service, search_query, brave_result, imslp_results>>

Next == ParseRequest \/ SearchImslp \/ ConvertAndRespond

Spec == Init /\ [][Next]_vars

(***************************************************************************)
(* Properties.                                                             *)
(***************************************************************************)
\* The events whose body is a JSON object with a `query` field.
QueryEvents == {body_event(Str(text)) : text \in StringQueryBodies \cup OtherQueryBodies}

HasQuery == event \in QueryEvents

\* The events whose body is {"query": q} for a string q.
StringQueryEvents == {body_event(Str(text)) : text \in StringQueryBodies}

ValidRequest == event \in StringQueryEvents

\* The query of a valid request, cut out of the text of its body.
RequestQuery ==
    LET text == event.val[1].value.val
    IN  SubSeq(text, Len(<<"{","\"","q","u","e","r","y","\"",":"," ","\"">>) + 1, Len(text) - Len(<<"\"","}">>))

\* search_imslp has returned.
Searched == pc \in {"convert", "done"} /\ calls # <<>>

\* The keys of the static table, as the specification lists them.
TableKeys == {<<"m","o","o","n","l","i","g","h","t"," ","s","o","n","a","t","a">>, <<"b","a","c","h">>, <<"c","h","o","p","i","n">>}

\* The entries of the result list, when the collaborator answered
\* {"web": {"results": [...]}}; no entries for any other answer.
ResultList ==
    LET resp == service.response
        web == dict_get(resp.val, <<"w","e","b">>)
        results == dict_get(web.val, <<"r","e","s","u","l","t","s">>)
    IN  IF /\ ~service.raises
           /\ type_of(resp) = "dict" /\ dict_has(resp.val, <<"w","e","b">>)
           /\ type_of(web) = "dict" /\ dict_has(web.val, <<"r","e","s","u","l","t","s">>)
           /\ type_of(results) = "list"
        THEN results.val
        ELSE <<>>

\* The field of an entry that is a record, '' when the entry has none.
Field(entry, key) == IF dict_has(entry.val, key) THEN dict_get(entry.val, key) ELSE Str(<<>>)

\* The value is a string that contains "pdf" in any case.
HasPdf(v) == is_str(v) /\ contains(<<"p","d","f">>, lower(v.val))

\* The entry carries the "pdf" signal in its url or its description.
PdfSignal(entry) ==
    /\ type_of(entry) = "dict"
    /\ HasPdf(Field(entry, <<"u","r","l">>)) \/ HasPdf(Field(entry, <<"d","e","s","c","r","i","p","t","i","o","n">>))

\* The entry can be read: it is a record whose url is a string and whose
\* description is a string unless the url carries the signal.
Readable(entry) ==
    /\ type_of(entry) = "dict"
    /\ is_str(Field(entry, <<"u","r","l">>))
    /\ HasPdf(Field(entry, <<"u","r","l">>)) \/ is_str(Field(entry, <<"d","e","s","c","r","i","p","t","i","o","n">>))

\* The live search yields a match: the result list holds a "pdf" entry and
\* every entry up to it can be read.
LiveMatch ==
    LET results == ResultList
    IN  \E i \in 1..Len(results) :
            /\ PdfSignal(results[i])
            /\ \A h \in 1..i : Readable(results[h])

\* C1: the request {"query": "bach"}, with no live match, ends in a 200
\* success response with the Bach title and composer and results_count 1.
C1_BachEndToEnd ==
    (/\ pc = "done"
     /\ event = body_event(Str(<<"{","\"","q","u","e","r","y","\"",":"," ","\"","b","a","c","h","\"","}">>))
     /\ ~LiveMatch)
    => /\ response.statusCode = 200
       /\ response.body.status = "success"
       /\ response.body.title = Str(<<"P","r","e","l","u","d","e"," ","a","n","d"," ","F","u","g","u","e"," ","i","n"," ","C"," ","m","a","j","o","r",","," ","B","W","V"," ","8","4","6">>)
       /\ response.body.composer = "Johann Sebastian Bach"
       /\ response.body.results_count = 1

\* C2: a query that contains no table key, with the collaborator failing or
\* yielding nothing, ends in a 200 response (never 404) with composer
\* "Unknown Composer", results_count 1 and the description
\* 'Search result for "<query>"' echoing the query as typed.
C2_UnknownQueryFallback ==
    (/\ pc = "done"
     /\ ValidRequest
     /\ LET query_lower == lower(RequestQuery)
        IN  \A k \in TableKeys : ~contains(k, query_lower)
     /\ ~LiveMatch)
    => /\ search_query = Str(RequestQuery)
       /\ response.statusCode = 200
       /\ response.body.status = "success"
       /\ response.body.composer = "Unknown Composer"
       /\ response.body.results_count = 1
       /\ response.body.description
            = Str(<<"S","e","a","r","c","h"," ","r","e","s","u","l","t"," ","f","o","r"," ","\"">> \o RequestQuery \o <<"\"">>)

C2_Witness ==
    /\ pc = "done"
    /\ event = body_event(Str(<<"{","\"","q","u","e","r","y","\"",":"," ","\"","s","o","m","e"," ","t","o","t","a","l","l","y"," ","u","n","k","n","o","w","n"," ","p","i","e","c","e"," ","x","y","z","\"","}">>))
    /\ service.raises
    /\ response.statusCode = 200
    /\ response.body.description = Str(<<"S","e","a","r","c","h"," ","r","e","s","u","l","t"," ","f","o","r"," ","\"","s","o","m","e"," ","t","o","t","a","l","l","y"," ","u","n","k","n","o","w","n"," ","p","i","e","c","e"," ","x","y","z","\"">>)

\* C3: whenever search_imslp yields a candidate and the image resolver
\* returns a url, the response is a 200 success carrying status, title,
\* composer, image_url, imslp_url, description and results_count.
C3_CandidateYieldsSuccess ==
    (/\ pc = "done"
     /\ imslp_results # <<>>
     /\ image_url # NoneVal)
    => /\ response.statusCode = 200
       /\ DOMAIN response.body
            = {"status", "title", "composer", "image_url", "imslp_url", "description", "results_count"}
       /\ response.body.status = "success"
       /\ response.body.title = imslp_results[1].title
       /\ response.body.image_url = image_url
       /\ response.body.results_count = Len(imslp_results)

\* C4 as stated: for every table key the query contains, case-insensitively,
\* the resolver returns the record list of that key.
C4_AnyContainedKeyWins ==
    (Searched /\ is_str(search_query)) =>
        LET query_lower == lower(search_query.val)
        IN  \A i \in 1..Len(mock_results) :
                contains(mock_results[i].key, query_lower)
                => imslp_results = mock_results[i].results

\* C4, amended: when the live search yields no match, the resolver returns
\* the record list of the first-declared table key that the lower-cased
\* query contains, whatever other text surrounds the key.
C4_FirstContainedKeyWins ==
    (Searched /\ is_str(search_query) /\ ~LiveMatch) =>
        LET query_lower == lower(search_query.val)
        IN  \A i \in 1..Len(mock_results) :
                (/\ contains(mock_results[i].key, query_lower)
                 /\ \A h \in 1..(i - 1) : ~contains(mock_results[h].key, query_lower))
                => imslp_results = mock_results[i].results

C4_Witness ==
    /\ Searched
    /\ ~LiveMatch
    /\ search_query = Str(<<"s","o","m","e"," ","t","o","t","a","l","l","y"," ","u","n","k","n","o","w","n"," ","p","i","e","c","e"," ","x","y","z","M","o","o","n","l","i","g","h","t"," ","S","o","n","a","t","a">>)
    /\ imslp_results = <<MoonlightRecord>>

\* C5 as stated: for every result list, search_mutopia_with_brave returns
\* the first entry, in list order, whose url or description contains "pdf"
\* in any case, as title, pdf_url (the entry's url) and description;
\* earlier entries without the signal are skipped.
C5_FirstPdfEntrySelected ==
    Searched =>
        LET results == ResultList
        IN  \A i \in 1..Len(results) :
                (PdfSignal(results[i]) /\ \A h \in 1..(i - 1) : ~PdfSignal(results[h]))
                => /\ brave_result # NoneVal
                   /\ brave_result.title = Field(results[i], <<"t","i","t","l","e">>)
                   /\ brave_result.pdf_url = Field(results[i], <<"u","r","l">>)
                   /\ brave_result.description = Field(results[i], <<"d","e","s","c","r","i","p","t","i","o","n">>)

\* C5, amended: the entries are read in list order.  The first entry with
\* the "pdf" signal is returned as title, pdf_url (its url) and description
\* when it and every entry before it can be read; an entry that cannot be
\* read, met before any match, ends the search with no match; so does a
\* list without the signal.
C5_FirstReadablePdfEntrySelected ==
    Searched =>
        LET results == ResultList
        IN  /\ \A i \in 1..Len(results) :
                   (\A h \in 1..(i - 1) : Readable(results[h]) /\ ~PdfSignal(results[h]))
                   => /\ (Readable(results[i]) /\ PdfSignal(results[i]))
                          => brave_result = [title |-> Field(results[i], <<"t","i","t","l","e">>),
                                             pdf_url |-> Field(results[i], <<"u","r","l">>),
                                             description |-> Field(results[i], <<"d","e","s","c","r","i","p","t","i","o","n">>),
                                             source |-> "Mutopia Project (Brave Search)"]
                      /\ ~Readable(results[i]) => brave_result = NoneVal
            /\ (\A i \in 1..Len(results) : ~PdfSignal(results[i])) => brave_result = NoneVal

\* Only the third entry has "pdf" in its url, and it is the one selected.
C5_Witness ==
    /\ Searched
    /\ Len(ResultList) = 3
    /\ Readable(ResultList[1]) /\ ~PdfSignal(ResultList[1])
    /\ Readable(ResultList[2]) /\ ~PdfSignal(ResultList[2])
    /\ ResultList[3] = result_entry(Str(<<"h","t","t","p","s",":","/","/","m",".","o","r","g","/","a",".","p","d","f">>), Str(<<"T","e","s","t"," ","T","i","t","l","e">>), Str(<<"s","c","o","r","e">>))
    /\ brave_result # NoneVal
    /\ brave_result.pdf_url = Str(<<"h","t","t","p","s",":","/","/","m",".","o","r","g","/","a",".","p","d","f">>)
    /\ brave_result.title = Str(<<"T","e","s","t"," ","T","i","t","l","e">>)

\* C6 as stated: for every query and whatever the collaborator does,
\* search_imslp returns at least one candidate and the handler never
\* answers 404.
C6_ResolverAlwaysYields ==
    /\ Searched => Len(imslp_results) >= 1
    /\ pc = "done" => response.statusCode # 404

\* C6, amended: for every query that is a string and whatever the
\* collaborator does, search_imslp returns at least one candidate; a
\* collaborator failure falls through to the static table and the generic
\* fallback; the handler never answers 404.
C6_StringQueryAlwaysYields ==
    ValidRequest =>
        /\ pc # "parse" => search_query = Str(RequestQuery)
        /\ pc \notin {"parse", "search"} => Searched
        /\ Searched => Len(imslp_results) >= 1
        /\ (Searched /\ ~LiveMatch) =>
               /\ ~get_mock_mutopia_results(search_query).raised
               /\ imslp_results = get_mock_mutopia_results(search_query).value
        /\ pc = "done" => response.statusCode # 404

C6_Witness ==
    /\ pc = "done"
    /\ ValidRequest
    /\ service.raises
    /\ search_query = Str(<<"s","o","m","e"," ","t","o","t","a","l","l","y"," ","u","n","k","n","o","w","n"," ","p","i","e","c","e"," ","x","y","z">>)
    /\ Len(imslp_results) = 1
    /\ imslp_results[1].composer = "Unknown Composer"
    /\ response.statusCode = 200

\* The text of the exception that lines 14-15 raise on a request without a
\* query field (an event that is not a dict among them), as the interpreter
\* gives it.
C7_ExceptionText ==
    CASE event = Dict(<<[key |-> <<"p","a","t","h">>, value |-> Str(<<"/","s","e","a","r","c","h">>)]>>) -> "'body'"
      [] event = NoneVal -> "'NoneType' object is not subscriptable"
      [] event = List(<<>>) -> "list indices must be integers or slices, not str"
      [] event = Str(<<"b","o","d","y">>) -> "string indices must be integers, not 'str'"
      [] event = IntVal(5) -> "'int' object is not subscriptable"
      [] event = body_event(NoneVal)
           -> "the JSON object must be str, bytes or bytearray, not NoneType"
      [] event = body_event(Dict(<<>>))
           -> "the JSON object must be str, bytes or bytearray, not dict"
      [] event = body_event(Str(<<"{","\"","t","i","t","l","e","\"",":"," ","\"","b","a","c","h","\"","}">>)) -> "'query'"
      [] event = body_event(Str(<<"[","]">>)) -> "list indices must be integers or slices, not str"
      [] event = body_event(Str(<<"n","u","l","l">>)) -> "'NoneType' object is not subscriptable"
      [] event = body_event(Str(<<"\"","b","a","c","h","\"">>)) -> "string indices must be integers, not 'str'"
      [] event = body_event(Str(<<"5">>)) -> "'int' object is not subscriptable"
      [] event = body_event(Str(<<"n","o","t"," ","j","s","o","n">>)) -> "Expecting value: line 1 column 1 (char 0)"
      [] event = body_event(Str(<<"{">>))
           -> "Expecting property name enclosed in double quotes: line 1 column 2 (char 1)"
      [] event = body_event(Str(<<"{","\"","q","u","e","r","y","\"",":"," ","\"","b","a","c","h","\"","}"," ","t","r","a","i","l","i","n","g">>))
           -> "Extra data: line 1 column 19 (char 18)"
      [] event = body_event(Str(<<" ","x">>)) -> "Expecting value: line 1 column 2 (char 1)"
      [] event = body_event(Str(<<"\n", "{">>))
           -> "Expecting property name enclosed in double quotes: line 2 column 2 (char 2)"
      [] event = body_event(Str(<<"[","1",",">>)) -> "Expecting value: line 1 column 4 (char 3)"
      [] event = body_event(Str(<<"\"","a","b","c">>))
           -> "Unterminated string starting at: line 1 column 1 (char 0)"
      [] event = body_event(Str(<<"{","\"","q","u","e","r","y","\"",":"," ">>)) -> "Expecting value: line 1 column 11 (char 10)"

\* C7: a body that is not JSON, or that has no `query` field, ends in a 500
\* response whose body carries `error` (the exception text) and `message`,
\* and neither resolver is called.
C7_BadRequestIs500 ==
    ~HasQuery =>
        /\ pc \in {"parse", "done"}
        /\ pc = "done" =>
            /\ response.statusCode = 500
            /\ DOMAIN response.body = {"error", "message"}
            /\ response.body.error = C7_ExceptionText
            /\ response.body.message = "Internal server error"
            /\ calls = <<>>
            /\ imslp_results = <<>>
            /\ image_url = NoneVal

C7_Witness ==
    /\ pc = "done"
    /\ event = body_event(Str(<<"{","\"","t","i","t","l","e","\"",":"," ","\"","b","a","c","h","\"","}">>))
    /\ response.statusCode = 500
    /\ response.body.error = "'query'"
    /\ calls = <<>>

\* C8: for a string title, the image url is the fixed placeholder prefix
\* followed by the title with every space replaced by '+' and every other
\* character kept; it is determined by the title alone, whatever the
\* pdf_url.
C8_ImageUrlFromTitle ==
    (/\ calls # <<>>
     /\ calls[Len(calls)] = "convert_pdf_to_image"
     /\ is_str(imslp_results[1].title)) =>
        LET title == imslp_results[1].title.val
            prefix == <<"h","t","t","p","s",":","/","/","v","i","a",".","p","l","a","c","e","h","o","l","d","e","r",".","c","o","m","/","8","0","0","x","1","0","0","0","/","f","f","f","f","f","f","/","0","0","0","0","0","0","?","t","e","x","t","=">>
        IN  /\ is_str(image_url)
            /\ Len(image_url.val) = Len(prefix) + Len(title)
            /\ SubSeq(image_url.val, 1, Len(prefix)) = prefix
            /\ \A i \in 1..Len(title) :
                   image_url.val[Len(prefix) + i] = (IF title[i] = " " THEN "+" ELSE title[i])

C8_Witness ==
    /\ pc = "done"
    /\ calls # <<>>
    /\ calls[Len(calls)] = "convert_pdf_to_image"
    /\ imslp_results[1].title = Str(<<"T","e","s","t"," ","T","i","t","l","e">>)
    /\ is_str(image_url)
    /\ SubSeq(image_url.val, Len(image_url.val) - 9, Len(image_url.val)) = <<"T","e","s","t","+","T","i","t","l","e">>

\* C9: when several table keys occur in the lower-cased query, the records
\* of the first-declared one are returned, wherever the keys stand in the
\* query: "bach chopin" and "chopin bach" both resolve to the Bach record.
C9_FirstDeclaredKeyWins ==
    (Searched /\ is_str(search_query) /\ ~LiveMatch) =>
        /\ LET query_lower == lower(search_query.val)
           IN  \A i, j \in 1..Len(mock_results) :
                   (/\ i < j
                    /\ contains(mock_results[i].key, query_lower)
                    /\ contains(mock_results[j].key, query_lower))
                   => /\ imslp_results # mock_results[j].results
                      /\ (\A h \in 1..(i - 1) : ~contains(mock_results[h].key, query_lower))
                             => imslp_results = mock_results[i].results
        /\ search_query \in {Str(<<"b","a","c","h"," ","c","h","o","p","i","n">>), Str(<<"c","h","o","p","i","n"," ","b","a","c","h">>)}
               => /\ Len(imslp_results) = 1
                  /\ imslp_results[1].title = Str(<<"P","r","e","l","u","d","e"," ","a","n","d"," ","F","u","g","u","e"," ","i","n"," ","C"," ","m","a","j","o","r",","," ","B","W","V"," ","8","4","6">>)
                  /\ imslp_results[1].composer = "Johann Sebastian Bach"

C9_Witness ==
    /\ Searched
    /\ ~LiveMatch
    /\ search_query = Str(<<"c","h","o","p","i","n"," ","b","a","c","h">>)
    /\ imslp_results = <<BachRecord>>

\* C10: a live match is returned alone, without consulting the static table
\* or the generic fallback, even when the query contains a table key; the
\* table and the fallback are consulted only when the live search yields
\* nothing, and then supply the result.
C10_LiveMatchHasPriority ==
    Searched =>
        IF LiveMatch
        THEN /\ brave_result # NoneVal
             /\ imslp_results = <<brave_result>>
             /\ \A i \in 1..Len(calls) : calls[i] # "get_mock_mutopia_results"
        ELSE /\ brave_result = NoneVal
             /\ \E i \in 1..Len(calls) : calls[i] = "get_mock_mutopia_results"
             /\ is_str(search_query) =>
                    \/ \E k \in 1..Len(mock_results) : imslp_results = mock_results[k].results
                    \/ /\ Len(imslp_results) = 1
                       /\ imslp_results[1].composer = "Unknown Composer"

C10_Witness ==
    /\ Searched
    /\ LiveMatch
    /\ search_query = Str(<<"b","a","c","h">>)
    /\ imslp_results = <<brave_result>>
    /\ brave_result.source = "Mutopia Project (Brave Search)"
====
